---------------------------- MODULE Spec2Model ----------------------------
(***************************************************************************)
(* A model of src/app.py: the Medi-Learn form-submission scraper.          *)
(*                                                                         *)
(* Text (str) is modelled as a sequence of one-character strings, so that  *)
(* norm, lower, "in", startswith, the DETAIL_RE search and urljoin are     *)
(* computed on characters as the code computes them.  Python's None is     *)
(* the one-element sequence None, which no text equals.                    *)
(***************************************************************************)
EXTENDS Integers, Sequences, FiniteSets, TLC

VARIABLES
    uni_auto,      \* st.text_input "Uni" (sidebar)
    fach_auto,     \* st.text_input "Fach" (sidebar)
    pc,            \* position of the auto-mode run / of a function call
    start_status,  \* HTTP status of the start-page response (0: none yet)
    start_html,    \* body of the start-page response: its forms
    action_url,    \* line 383
    payload,       \* line 384, 451, 452
    uni_name, uni_val, fach_name, fach_val,   \* lines 388-389
    all_rows,      \* crawl_all_pages_html: all_rows
    seen_ids,      \* crawl_all_pages_html: seen_ids
    next_url,      \* crawl_all_pages_html: next_url
    guard,         \* crawl_all_pages_html: guard
    shown,         \* the result tables the UI has shown: none, or the one of line 463
    error,         \* the st.error message kind, or "" when none
    fetches,       \* history: result-page requests issued (post_form + session.get)
    firstSeen,     \* history: ml_id -> title/url of its first occurrence in fetch order
    lastNew,       \* history: references the last processed page added
    conflict,      \* history: a later link gave another title or url for a kept id
    accumulated,   \* history: all_rows as accumulated, before line 232 sorts it
    arg,           \* argument of a function under test
    ret            \* its return value

vars == << uni_auto, fach_auto, pc, start_status,
           start_html, action_url, payload, uni_name, uni_val, fach_name,
           fach_val, all_rows, seen_ids, next_url, guard, shown,
           error, fetches, firstSeen, lastNew, conflict, accumulated, arg, ret >>

---------------------------------------------------------------------------
(* Bounds of the model *)

\* anchors on one result page
MaxAnchors == 2
\* options handed to pick_option_value in the function-level specification
MaxOptions == 3

\* the loop guard of crawl_all_pages_html (while next_url and guard < 30)
GuardLimit == 30

---------------------------------------------------------------------------
(* Text *)

None == << "None" >>

\* Python truthiness of an Optional[str]
Truthy(s) == s # None /\ s # << >>

IsSpace(c) == c \in {" ", "\t", "\n"}

IsDigit(c) == c \in {"0", "1", "2", "3", "4", "5", "6", "7", "8", "9"}

UpperChars == << "A", "B", "C", "D", "E", "F", "G", "H", "I", "J", "K", "L", "M",
                 "N", "O", "P", "Q", "R", "S", "T", "U", "V", "W", "X", "Y", "Z",
                 "AE~", "OE~", "UE~" >>

LowerChars == << "a", "b", "c", "d", "e", "f", "g", "h", "i", "j", "k", "l", "m",
                 "n", "o", "p", "q", "r", "s", "t", "u", "v", "w", "x", "y", "z",
                 "ae~", "oe~", "ue~" >>

LowerChar(c) ==
    IF \E i \in 1..Len(UpperChars) : UpperChars[i] = c
    THEN LowerChars[CHOOSE i \in 1..Len(UpperChars) : UpperChars[i] = c]
    ELSE c

\* str.lower()
Lower(s) == [i \in 1..Len(s) |-> LowerChar(s[i])]

RECURSIVE LStrip(_)
LStrip(s) == IF s # << >> /\ IsSpace(Head(s)) THEN LStrip(Tail(s)) ELSE s

RECURSIVE RStrip(_)
RStrip(s) ==
    IF s # << >> /\ IsSpace(s[Len(s)]) THEN RStrip(SubSeq(s, 1, Len(s) - 1)) ELSE s

\* str.strip()
Strip(s) == RStrip(LStrip(s))

\* re.sub(r"\s+", " ", s)
RECURSIVE CollapseSpace(_)
CollapseSpace(s) ==
    IF s = << >> THEN << >>
    ELSE IF IsSpace(Head(s))
         THEN << " " >> \o CollapseSpace(LStrip(s))
         ELSE << Head(s) >> \o CollapseSpace(Tail(s))

\* norm(s): re.sub(r"\s+", " ", (s or "").strip()).lower()
norm(s) == Lower(CollapseSpace(Strip(IF Truthy(s) THEN s ELSE << >>)))

\* needle in hay
Contains(hay, needle) ==
    \E i \in 0..(Len(hay) - Len(needle)) : SubSeq(hay, i + 1, i + Len(needle)) = needle

\* s.startswith(prefix)
StartsWith(s, prefix) ==
    Len(prefix) <= Len(s) /\ SubSeq(s, 1, Len(prefix)) = prefix

\* " ".join(parts)
RECURSIVE JoinSpace(_)
JoinSpace(parts) ==
    IF parts = << >> THEN << >>
    ELSE IF Len(parts) = 1 THEN parts[1]
         ELSE parts[1] \o << " " >> \o JoinSpace(Tail(parts))

\* the indices of seq, as a set
Idx(seq) == 1..Len(seq)

\* the least index of seq that satisfies a test, given as the set of indices that do
MinOf(S) == CHOOSE i \in S : \A j \in S : i <= j

---------------------------------------------------------------------------
(* pick_option_value *)

\* the second loop's test: k.startswith(key) or key in k or k in key
FuzzyMatch(k, key) == StartsWith(k, key) \/ Contains(k, key) \/ Contains(key, k)

\* the options whose normalised text is the key (the first loop's test)
ExactHits(options, key) == {i \in Idx(options) : norm(options[i].visible) = key}

\* the options the second loop's test accepts
FuzzyHits(options, key) == {i \in Idx(options) : FuzzyMatch(norm(options[i].visible), key)}

\* (value, visible) of option i
Picked(options, i) == << options[i].value, options[i].visible >>

\* the two loops: the first exact hit, else the first fuzzy hit, else (None, None)
PickFrom(options, exact, fuzzy) ==
    IF exact # {} THEN Picked(options, MinOf(exact))
    ELSE IF fuzzy # {} THEN Picked(options, MinOf(fuzzy))
    ELSE << None, None >>

\* a plausible slip: one loop that takes the first option matching either way
pick_option_value_one_pass(options, wanted_visible) ==
    PickFrom(options, {},
             ExactHits(options, norm(wanted_visible)) \cup FuzzyHits(options, norm(wanted_visible)))

\* a plausible change: the first option when nothing matches
pick_option_value_or_first(options, wanted_visible) ==
    PickFrom(options, ExactHits(options, norm(wanted_visible)),
             IF FuzzyHits(options, norm(wanted_visible)) # {}
             THEN FuzzyHits(options, norm(wanted_visible)) ELSE Idx(options))

pick_option_value(options, wanted_visible) ==
    PickFrom(options, ExactHits(options, norm(wanted_visible)),
             FuzzyHits(options, norm(wanted_visible)))

---------------------------------------------------------------------------
(* URLs *)

BASE_URL == <<"h", "t", "t", "p", "s", ":", "/", "/", "w", "w", "w", ".", "m", "e", "d", "i", "-", "l", "e", "a", "r", "n", ".", "d", "e">>

START_PATH == <<"/", "p", "r", "u", "e", "f", "u", "n", "g", "s", "p", "r", "o", "t", "o", "k", "o", "l", "l", "e", "/", "f", "a", "c", "h", "a", "r", "z", "t", "p", "r", "u", "e", "f", "u", "n", "g", "/">>

\* urllib.parse.urljoin(base, ref) for the bases and references of this program:
\* a reference with a scheme stands, one that starts with "/" replaces the
\* base's path, any other is resolved against the base's directory (both
\* bases end with "/", so that is the base itself)
urljoin(base, ref) ==
    IF StartsWith(ref, <<"h", "t", "t", "p", "s", ":", "/", "/">>)
       \/ StartsWith(ref, <<"h", "t", "t", "p", ":", "/", "/">>)
    THEN ref
    ELSE IF StartsWith(ref, << "/" >>) THEN BASE_URL \o ref
    ELSE base \o ref

START_URL == urljoin(BASE_URL, START_PATH)

absolute_url(base, href) == IF ~Truthy(href) THEN None ELSE urljoin(base, href)

---------------------------------------------------------------------------
(* Result pages.  A page is the sequence of its elements in document      *)
(* order; an element is [tag, href, text]: href is None when the element  *)
(* has no href attribute, text is its get_text(" ", strip=True).          *)

\* re.compile(r"detailed\.php\?ID=(\d+)", re.I), lower-cased: what the
\* characters before the digits must be, ignoring case
DETAIL_RE == <<"d", "e", "t", "a", "i", "l", "e", "d", ".", "p", "h", "p", "?", "i", "d", "=">>

\* the positions of s at which DETAIL_RE matches: the literal, then a digit
DetailMatches(s) ==
    {i \in 1..Len(s) :
        /\ i + Len(DETAIL_RE) <= Len(s)
        /\ Lower(SubSeq(s, i, i + Len(DETAIL_RE) - 1)) = DETAIL_RE
        /\ IsDigit(s[i + Len(DETAIL_RE)])}

\* \d+ from position i: the longest run of digits
RECURSIVE DigitRun(_, _)
DigitRun(s, i) ==
    IF i <= Len(s) /\ IsDigit(s[i]) THEN << s[i] >> \o DigitRun(s, i + 1) ELSE << >>

\* DETAIL_RE.search(s).group(1), or None when there is no match
DetailId(s) ==
    IF DetailMatches(s) = {} THEN None
    ELSE DigitRun(s, MinOf(DetailMatches(s)) + Len(DETAIL_RE))

\* soup.find_all("a", href=True)
AnchorsWithHref(html_text) == SelectSeq(html_text, LAMBDA e : e.tag = "a" /\ e.href # None)

\* line 173: a.get_text(" ", strip=True) or f"Protokoll {ml_id}"
TitleOf(text, ml_id) ==
    IF text # << >> THEN text ELSE <<"P", "r", "o", "t", "o", "k", "o", "l", "l", " ">> \o ml_id

\* lines 168-175 for one anchor: its row, if its href matches
RowOf(a, ml_id, url) ==
    IF ml_id # None /\ url # None
    THEN << [ml_id |-> ml_id, title |-> TitleOf(a.text, ml_id), url |-> url] >>
    ELSE << >>

\* lines 167-175: one row per anchor whose href matches
RECURSIVE RowsOf(_)
RowsOf(anchors) ==
    IF anchors = << >> THEN << >>
    ELSE RowOf(Head(anchors), DetailId(Head(anchors).href),
               absolute_url(START_URL, Head(anchors).href)) \o RowsOf(Tail(anchors))

\* a plausible slip: the later occurrence of an id replaces the earlier one
RECURSIVE DedupLast(_, _)
DedupLast(rows, seen) ==
    IF rows = << >> THEN << >>
    ELSE IF \E j \in 2..Len(rows) : rows[j].ml_id = Head(rows).ml_id
         THEN DedupLast(Tail(rows), seen)
         ELSE << Head(rows) >> \o DedupLast(Tail(rows), seen)

\* lines 176-183: the de-dup loop, seen being the ids kept so far
RECURSIVE Dedup(_, _)
Dedup(rows, seen) ==
    IF rows = << >> THEN << >>
    ELSE IF Head(rows).ml_id \in seen
         THEN Dedup(Tail(rows), seen)
         ELSE << Head(rows) >> \o Dedup(Tail(rows), seen \cup {Head(rows).ml_id})

extract_result_rows_from_html(html_text) == Dedup(RowsOf(AnchorsWithHref(html_text)), {})

\* line 192: the "next page" labels
NextLabels == << <<"w", "e", "i", "t", "e", "r">>,
                 <<"n", "ae~", "c", "h", "s", "t", "e">>,
                 <<"n", "e", "x", "t">>,
                 << ">>" >>, << ">~" >>, << ">" >> >>

\* lines 190-193: the hrefs of the anchors whose lower-cased text holds a label
Candidates(html_text) ==
    LET hit == SelectSeq(AnchorsWithHref(html_text),
                         LAMBDA a : \E n \in Idx(NextLabels) : Contains(Lower(a.text), NextLabels[n]))
    IN  [i \in Idx(hit) |-> hit[i].href]

\* lines 196-199: the candidates whose absolute url lies in the listing
InListing(candidates) ==
    {i \in Idx(candidates) :
        /\ absolute_url(START_URL, candidates[i]) # None
        /\ Contains(absolute_url(START_URL, candidates[i]),
                    SubSeq(START_PATH, 1, Len(START_PATH) - 1))}

\* lines 194-200
NextOf(candidates, inListing) ==
    IF candidates = << >> THEN None
    ELSE IF inListing # {} THEN absolute_url(START_URL, candidates[MinOf(inListing)])
    ELSE absolute_url(START_URL, candidates[1])

find_next_page_url_from_html(html_text) ==
    NextOf(Candidates(html_text), InListing(Candidates(html_text)))

---------------------------------------------------------------------------
(* all_rows.sort(key=lambda x: int(x["ml_id"])) *)

DigitValue(c) == CHOOSE n \in 0..9 : <<"0", "1", "2", "3", "4", "5", "6", "7", "8", "9">>[n + 1] = c

\* int(s) for a string of digits
RECURSIVE ToInt(_)
ToInt(s) == IF s = << >> THEN 0 ELSE 10 * ToInt(SubSeq(s, 1, Len(s) - 1)) + DigitValue(s[Len(s)])

SortKey(row) == ToInt(row.ml_id)

\* list.sort is stable: a row goes after every row whose key is not greater
RECURSIVE InsertSorted(_, _)
InsertSorted(sorted, row) ==
    IF sorted = << >> THEN << row >>
    ELSE IF SortKey(row) < SortKey(Head(sorted))
         THEN << row >> \o sorted
         ELSE << Head(sorted) >> \o InsertSorted(Tail(sorted), row)

\* a plausible slip: the sorted list is dropped and the rows stay as accumulated
SortRowsNot(rows) == rows

RECURSIVE SortRows(_)
SortRows(rows) ==
    IF rows = << >> THEN << >>
    ELSE InsertSorted(SortRows(SubSeq(rows, 1, Len(rows) - 1)), rows[Len(rows)])

---------------------------------------------------------------------------
(* The start page.  A page is the sequence of its forms; a form is        *)
(* [action, hidden, selects, legend]; a select is [name, id, label,       *)
(* options] and sits with its label in an element of its own; an option   *)
(* is [visible, value].  An attribute that is absent is None; visible,    *)
(* label and legend are get_text(strip=True) of the element.              *)

\* any(t in s for t in tokens)
AnyIn(tokens, s) == \E n \in Idx(tokens) : Contains(s, tokens[n])

\* the non-empty texts of a sequence of texts
NonEmpty(texts) == SelectSeq(texts, LAMBDA t : t # << >>)

\* sel.find_parent().get_text(" ", strip=True): the label and the options
ContextOf(sel) ==
    JoinSpace(NonEmpty(<< sel.label >> \o [i \in Idx(sel.options) |-> sel.options[i].visible]))

\* form.get_text(" ", strip=True)
FormText(form) ==
    JoinSpace(NonEmpty(<< form.legend >> \o [i \in Idx(form.selects) |-> ContextOf(form.selects[i])]))

\* line 50: needles
FilterNeedles == << <<"u", "n", "i">>,
                    <<"u", "n", "i", "v", "e", "r", "s", "i", "t", "ae~", "t">>,
                    <<"s", "t", "a", "n", "d", "o", "r", "t">>,
                    <<"o", "r", "t">>,
                    <<"f", "a", "c", "h">>,
                    <<"f", "a", "c", "h", "g", "e", "b", "i", "e", "t">>,
                    <<"i", "n", "n", "e", "r", "e">>,
                    <<"m", "e", "d", "i", "z", "i", "n">> >>

form_has_filters(form) ==
    LET txt == Lower(FormText(form))
        score == Cardinality({n \in Idx(FilterNeedles) : Contains(txt, FilterNeedles[n])})
    IN  form.selects # << >> /\ score >= 2

\* data[name] = value: the dict with one entry set
DictSet(d, k, v) == [n \in DOMAIN d \cup {k} |-> IF n = k THEN v ELSE d[n]]

EmptyDict == [n \in {} |-> << >>]

RECURSIVE HiddenInto(_, _)
HiddenInto(data, hidden) ==
    IF hidden = << >> THEN data
    ELSE LET el == Head(hidden)
         IN  IF Truthy(el.name)
             THEN HiddenInto(DictSet(data, el.name, IF Truthy(el.value) THEN el.value ELSE << >>),
                             Tail(hidden))
             ELSE HiddenInto(data, Tail(hidden))

collect_hidden_inputs(form) == HiddenInto(EmptyDict, form.hidden)

\* lines 120-121
uni_tokens == << <<"u", "n", "i">>,
                 <<"u", "n", "i", "v", "e", "r", "s", "i", "t", "ae~", "t">>,
                 <<"s", "t", "a", "n", "d", "o", "r", "t">>,
                 <<"o", "r", "t">>,
                 <<"t", "u", " ", "d", "r", "e", "s", "d", "e", "n">>,
                 <<"d", "r", "e", "s", "d", "e", "n">> >>

fach_tokens == << <<"f", "a", "c", "h">>,
                  <<"f", "a", "c", "h", "g", "e", "b", "i", "e", "t">>,
                  <<"i", "n", "n", "e", "r", "e">>,
                  <<"m", "e", "d", "i", "z", "i", "n">>,
                  <<"c", "h", "i", "r", "u", "r", "g", "i", "e">>,
                  <<"n", "e", "u", "r", "o", "l", "o", "g", "i", "e">> >>

\* line 136
CityNames == << <<"b", "e", "r", "l", "i", "n">>,
                <<"m", "ue~", "n", "c", "h", "e", "n">>,
                <<"h", "a", "m", "b", "u", "r", "g">>,
                <<"d", "r", "e", "s", "d", "e", "n">>,
                <<"k", "oe~", "l", "n">>,
                <<"h", "a", "n", "n", "o", "v", "e", "r">>,
                <<"f", "r", "a", "n", "k", "f", "u", "r", "t">> >>

\* line 141
FachNames == << <<"i", "n", "n", "e", "r", "e">>,
                <<"c", "h", "i", "r", "u", "r", "g", "i", "e">>,
                <<"n", "e", "u", "r", "o", "l", "o", "g", "i", "e">>,
                <<"a", "n", "ae~", "s", "t", "h", "e", "s", "i", "e">>,
                <<"d", "e", "r", "m", "a">>,
                <<"g", "y", "n">> >>

\* x or "" for an attribute
OrEmpty(x) == IF Truthy(x) THEN x ELSE << >>

\* line 123: the tokens looked for in the select's name and id
UniNameTokens == << <<"u", "n", "i">>, <<"s", "t", "a", "n", "d", "o", "r", "t">>, <<"o", "r", "t">> >>

\* line 125
FachNameTokens == << <<"f", "a", "c", "h">>, <<"f", "a", "c", "h", "g", "e", "b", "i", "e", "t">>,
                     <<"g", "e", "b", "i", "e", "t">> >>

\* the options whose normalised text holds one of the names
Hits(options, names) == Cardinality({i \in Idx(options) : AnyIn(names, norm(options[i].visible))})

\* lines 123-147
RoleOf(name, sid, around, city_hits, fach_hits) ==
    IF AnyIn(UniNameTokens, name) \/ AnyIn(UniNameTokens, sid) THEN "uni"
    ELSE IF AnyIn(FachNameTokens, name) \/ AnyIn(FachNameTokens, sid) THEN "fach"
    ELSE IF AnyIn(uni_tokens, around) THEN "uni"
    ELSE IF AnyIn(fach_tokens, around) THEN "fach"
    ELSE IF city_hits > fach_hits THEN "uni"
    ELSE IF fach_hits > city_hits THEN "fach"
    ELSE "none"

\* guess_select_role of the dict lines 407-415 build for sel: "uni", "fach" or "none"
guess_select_role(sel) ==
    RoleOf(Lower(OrEmpty(sel.name)), Lower(OrEmpty(sel.id)), Lower(ContextOf(sel)),
           Hits(sel.options, CityNames), Hits(sel.options, FachNames))

\* lines 392-398: the options with a visible text; a missing or empty value is the text
RECURSIVE OptsOf(_)
OptsOf(options) ==
    IF options = << >> THEN << >>
    ELSE IF Head(options).visible = << >> THEN OptsOf(Tail(options))
    ELSE << [visible |-> Head(options).visible,
             value |-> IF Truthy(Head(options).value) THEN Head(options).value
                       ELSE Head(options).visible] >> \o OptsOf(Tail(options))

\* pick_from_bs(sel, wanted)[0]
pick_from_bs(sel, wanted) == pick_option_value(OptsOf(sel.options), wanted)[1]

\* lines 417-421; m is [un, uv, fn, fv], v the value picked for the wanted text
SetUni(m, role, v, name) ==
    IF role = "uni" /\ m.uv = None /\ Truthy(v) THEN [m EXCEPT !.uv = v, !.un = name] ELSE m

\* lines 422-426
SetFach(m, role, v, name) ==
    IF role = "fach" /\ m.fv = None /\ Truthy(v) THEN [m EXCEPT !.fv = v, !.fn = name] ELSE m

\* lines 402-426: the role-based loop
RECURSIVE RoleLoop(_, _, _, _)
RoleLoop(selects, m, uni, fach) ==
    IF selects = << >> THEN m
    ELSE RoleLoop(Tail(selects),
                  SetFach(SetUni(m, guess_select_role(Head(selects)),
                                 pick_from_bs(Head(selects), uni), Head(selects).name),
                          guess_select_role(Head(selects)),
                          pick_from_bs(Head(selects), fach), Head(selects).name),
                  uni, fach)

\* the selects that have an option for the wanted text
FallbackHits(selects, wanted) == {i \in Idx(selects) : Truthy(pick_from_bs(selects[i], wanted))}

\* lines 429-435: the first select that has an option for the wanted text
FallbackUni(m, selects, hits, uni) ==
    IF ~Truthy(m.uv) /\ hits # {}
    THEN [m EXCEPT !.uv = pick_from_bs(selects[MinOf(hits)], uni), !.un = selects[MinOf(hits)].name]
    ELSE m

\* lines 436-442
FallbackFach(m, selects, hits, fach) ==
    IF ~Truthy(m.fv) /\ hits # {}
    THEN [m EXCEPT !.fv = pick_from_bs(selects[MinOf(hits)], fach), !.fn = selects[MinOf(hits)].name]
    ELSE m

\* lines 388-442
MapSelects(selects, uni, fach) ==
    FallbackFach(
        FallbackUni(RoleLoop(selects, [un |-> None, uv |-> None, fn |-> None, fv |-> None], uni, fach),
                    selects, FallbackHits(selects, uni), uni),
        selects, FallbackHits(selects, fach), fach)

\* lines 371-378: the index of the target form, 0 when the page has no form
TargetForm(forms) ==
    IF \E i \in Idx(forms) : form_has_filters(forms[i])
    THEN MinOf({i \in Idx(forms) : form_has_filters(forms[i])})
    ELSE IF forms # << >> THEN 1 ELSE 0

\* line 444: both filters mapped
BothMapped(m) == Truthy(m.un) /\ Truthy(m.fn) /\ Truthy(m.uv) /\ Truthy(m.fv)

---------------------------------------------------------------------------
(* The inputs the specifications draw from *)

\* the sequences over S of length at most n
SeqsUpTo(S, n) == UNION {[1..k -> S] : k \in 0..n}

\* elements of a result page: detail links to the ids 9 (twice, in two
\* spellings, one without text), 09 and 10, two "next" links (one inside the
\* listing, one outside), and a detail reference that is not an anchor
ResultElements ==
    { [tag |-> "a", href |-> <<"d", "e", "t", "a", "i", "l", "e", "d", ".", "p", "h", "p", "?", "I", "D", "=", "9">>, text |-> <<"A">>],
      [tag |-> "a", href |-> <<"/", "x", "/", "D", "E", "T", "A", "I", "L", "E", "D", ".", "P", "H", "P", "?", "i", "d", "=", "9", "&", "p", "=", "1">>, text |-> << >>],
      [tag |-> "a", href |-> <<"d", "e", "t", "a", "i", "l", "e", "d", ".", "p", "h", "p", "?", "I", "D", "=", "0", "9">>, text |-> <<"B">>],
      [tag |-> "a", href |-> <<"d", "e", "t", "a", "i", "l", "e", "d", ".", "p", "h", "p", "?", "I", "D", "=", "1", "0">>, text |-> <<"A">>],
      [tag |-> "a", href |-> <<"?", "p", "a", "g", "e", "=", "2">>, text |-> <<"W", "e", "i", "t", "e", "r">>],
      [tag |-> "a", href |-> <<"/", "f", "o", "r", "u", "m", "/">>, text |-> << ">" >>],
      [tag |-> "span", href |-> None, text |-> <<"d", "e", "t", "a", "i", "l", "e", "d", ".", "p", "h", "p", "?", "I", "D", "=", "9">>] }

ResultPages == SeqsUpTo(ResultElements, MaxAnchors)

\* the result pages of the specification that explores the start page: a page
\* with one detail link, and a page with a "next" link only
FewResultPages ==
    { << [tag |-> "a", href |-> <<"d", "e", "t", "a", "i", "l", "e", "d", ".", "p", "h", "p", "?", "I", "D", "=", "9">>, text |-> <<"A">>] >>,
      << [tag |-> "a", href |-> <<"?", "p", "a", "g", "e", "=", "2">>, text |-> <<"W", "e", "i", "t", "e", "r">>] >> }

Dresden == <<"D", "r", "e", "s", "d", "e", "n">>

InnereMedizin == <<"I", "n", "n", "e", "r", "e", " ", "M", "e", "d", "i", "z", "i", "n">>

SelUni ==
    [name |-> <<"F", "p", "p", "U", "n", "i">>, id |-> None, label |-> << >>,
     options |-> << [visible |-> <<"D", "r", "e", "s", "d", "e", "n">>, value |-> <<"5">>] >>]

SelFach ==
    [name |-> <<"F", "p", "p", "F", "a", "c", "h">>, id |-> None, label |-> << >>,
     options |-> << [visible |-> <<"I", "n", "n", "e", "r", "e", " ", "M", "e", "d", "i", "z", "i", "n">>, value |-> <<"2", "0">>] >>]

\* a select for the institution that does not list Dresden
SelUniOther ==
    [name |-> <<"F", "p", "p", "U", "n", "i">>, id |-> None, label |-> << >>,
     options |-> << [visible |-> <<"B", "i", "t", "t", "e", " ", "w", "ae~", "h", "l", "e", "n">>, value |-> << >>],
                    [visible |-> <<"B", "e", "r", "l", "i", "n">>, value |-> <<"1">>] >>]

\* one select that lists both an institution and a specialty
SelBoth ==
    [name |-> <<"q">>, id |-> None, label |-> << >>,
     options |-> << [visible |-> <<"D", "r", "e", "s", "d", "e", "n">>, value |-> <<"5">>],
                    [visible |-> <<"I", "n", "n", "e", "r", "e", " ", "M", "e", "d", "i", "z", "i", "n">>, value |-> <<"2", "0">>] >>]

\* a select without a name attribute
SelNoName ==
    [name |-> None, id |-> <<"s">>, label |-> << >>,
     options |-> << [visible |-> <<"T", "U", " ", "D", "r", "e", "s", "d", "e", "n">>, value |-> None] >>]

StartSelects == {SelUni, SelFach, SelUniOther, SelBoth, SelNoName}

\* selects in one form
MaxSelects == 2

HiddenSets ==
    { << >>,
      << [name |-> <<"t">>, value |-> <<"x">>], [name |-> None, value |-> <<"y">>] >> }

StartForms ==
    { [action |-> a, hidden |-> h, selects |-> ss, legend |-> << >>] :
        a \in {None}, h \in HiddenSets, ss \in SeqsUpTo(StartSelects, MaxSelects) }

\* a search form without selects that precedes the filter form
SearchForm ==
    [action |-> <<"/", "s">>, hidden |-> << >>, selects |-> << >>, legend |-> <<"S", "u", "c", "h", "e">>]

StartPages ==
    {<< >>} \cup {<< f >> : f \in StartForms} \cup {<< SearchForm, f >> : f \in StartForms}

\* the start page of the spec's scenario
ScenarioPage ==
    << [action |-> None, hidden |-> << >>, selects |-> << SelUni, SelFach >>, legend |-> << >>] >>

StartResponses == {[status |-> st, forms |-> p] : st \in {200, 500}, p \in StartPages}

WantedUni == {<<"D", "r", "e", "s", "d", "e", "n">>, <<"L", "e", "i", "p", "z", "i", "g">>}

WantedFach == {<<"I", "n", "n", "e", "r", "e", " ", "M", "e", "d", "i", "z", "i", "n">>, <<"C", "h", "i", "r", "u", "r", "g", "i", "e">>}

\* the options and the wanted texts pick_option_value is applied to
PickOptions ==
    { [visible |-> <<"T", "U", " ", "D", "r", "e", "s", "d", "e", "n">>, value |-> <<"1">>],
      [visible |-> <<"D", "r", "e", "s", "d", "e", "n">>, value |-> <<"5">>],
      [visible |-> <<"D", "R", "E", "S", "D", "E", "N">>, value |-> <<"6">>],
      [visible |-> <<"I", "n", "n", "e", "r", "e", " ", " ", "M", "e", "d", "i", "z", "i", "n">>, value |-> <<"7">>],
      [visible |-> <<"B", "e", "r", "l", "i", "n">>, value |-> <<"2">>] }

PickWanted == {<<"d", "r", "e", "s", "d", "e", "n">>, <<" ", "D", "r", "e", "s", "d", "e", "n", " ">>, <<"i", "n", "n", "e", "r", "e", "	", "M", "e", "d", "i", "z", "i", "n">>, <<"B", "e", "r", "l", "i", "n">>, <<"L", "e", "i", "p", "z", "i", "g">>, << >>}

---------------------------------------------------------------------------
(* History: the first occurrence of each record id, read off the fetched  *)
(* pages directly                                                         *)

\* the positions of the detail links to ml_id among the page's anchors
Occurrences(html_text, ml_id) ==
    {i \in Idx(AnchorsWithHref(html_text)) : DetailId(AnchorsWithHref(html_text)[i].href) = ml_id}

\* the record ids of the page's detail links
IdsOn(html_text) ==
    {DetailId(AnchorsWithHref(html_text)[i].href) : i \in Idx(AnchorsWithHref(html_text))} \ {None}

\* title and url of a detail link to ml_id
RefOf(a, ml_id) ==
    [title |-> IF a.text = << >>
               THEN <<"P", "r", "o", "t", "o", "k", "o", "l", "l", " ">> \o ml_id
               ELSE a.text,
     url |-> urljoin(START_URL, a.href)]

\* title and url of the page's first detail link to ml_id
FirstOn(html_text, ml_id) ==
    RefOf(AnchorsWithHref(html_text)[MinOf(Occurrences(html_text, ml_id))], ml_id)

\* the first occurrences on one page
FirstsOn(html_text) == [id \in IdsOn(html_text) |-> FirstOn(html_text, id)]

\* firstSeen after one more page, firsts being the page's first occurrences
SeenAfter(seen, firsts) ==
    [id \in DOMAIN seen \cup DOMAIN firsts |-> IF id \in DOMAIN seen THEN seen[id] ELSE firsts[id]]

\* a response of the site with what the program reads off it: rows is line
\* 214 or 225, next is line 217 or 230 (firsts is for the history only)
Served(html_text) ==
    [html |-> html_text,
     rows |-> extract_result_rows_from_html(html_text),
     next |-> find_next_page_url_from_html(html_text),
     firsts |-> FirstsOn(html_text),
     repeats |-> \E id \in IdsOn(html_text) : Cardinality(Occurrences(html_text, id)) > 1]

\* a page's first occurrence of a kept id has another title or url than the kept one
Differs(seen, firsts) == \E id \in DOMAIN seen \cap DOMAIN firsts : seen[id] # firsts[id]

\* every result page of at most MaxAnchors elements, as served
ResultSite == {Served(p) : p \in ResultPages}

FewResultSite == {Served(p) : p \in FewResultPages}

---------------------------------------------------------------------------
(* crawl_all_pages_html *)

\* a plausible slip: every row of a page is appended, seen or not
AccumulateAll(rows_so_far, seen, rows) == rows_so_far \o rows

\* lines 226-229: the rows of a page whose id was not seen are appended
Accumulate(rows_so_far, seen, rows) == rows_so_far \o Dedup(SelectSeq(rows, LAMBDA r : r.ml_id \notin seen), {})

\* a plausible slip: the guard compared with <=
LoopContinuesOffByOne(url, g) == Truthy(url) /\ g <= GuardLimit

\* a plausible slip: the walk goes on until the guard alone stops it
LoopContinuesGuardOnly(url, g) == g < GuardLimit

\* line 219: while next_url and guard < 30
LoopContinues(url, g) == Truthy(url) /\ g < GuardLimit

---------------------------------------------------------------------------
(* Auto mode, lines 365-477 *)

\* the variables of a function-level specification
FunVars == << arg, ret >>

EnvVars == << uni_auto, fach_auto >>

MapVars == << action_url, payload, uni_name, uni_val, fach_name, fach_val >>

CrawlVars == << all_rows, seen_ids, next_url, guard, firstSeen, lastNew, conflict >>

\* the state of a run before its first step, given the sidebar's texts
InitRun(uni, fach) ==
    /\ uni_auto = uni /\ fach_auto = fach
    /\ pc = "start"
    /\ start_status = 0 /\ start_html = << >>
    /\ action_url = None /\ payload = EmptyDict
    /\ uni_name = None /\ uni_val = None /\ fach_name = None /\ fach_val = None
    /\ all_rows = << >> /\ seen_ids = {} /\ next_url = None /\ guard = 0
    /\ shown = << >> /\ error = ""
    /\ fetches = 0 /\ firstSeen = EmptyDict /\ lastNew = 0
    /\ conflict = FALSE /\ accumulated = << >>
    /\ arg = << >> /\ ret = << >>

\* line 368: sess.get(START_URL, ...).text; the status is not looked at.
\* startSite: the responses the site may give
FetchStart(startSite) ==
    /\ pc = "start"
    /\ \/ \E resp \in startSite :
            /\ start_status' = resp.status
            /\ start_html' = resp.forms
            /\ pc' = "map"
            /\ error' = error
       \/ \* timeout or connection failure: the exception reaches line 476
          /\ pc' = "error"
          /\ error' = "fetch"
          /\ UNCHANGED << start_status, start_html >>
    /\ UNCHANGED << EnvVars, MapVars, CrawlVars, FunVars, shown, accumulated, fetches >>

\* lines 382-452 for the target form, m being what lines 388-442 mapped
MapForm(form, m, hidden) ==
    /\ action_url' = IF Truthy(form.action) THEN urljoin(START_URL, form.action) ELSE START_URL
    /\ uni_name' = m.un /\ uni_val' = m.uv
    /\ fach_name' = m.fn /\ fach_val' = m.fv
    /\ IF BothMapped(m)
       THEN /\ payload' = DictSet(DictSet(hidden, m.un, m.uv), m.fn, m.fv)
            /\ pc' = "post"
            /\ error' = error
       ELSE /\ payload' = hidden
            /\ pc' = "error"
            /\ error' = "nomap"

\* lines 370-452, t being the index of the target form
MapTarget(t) ==
    IF t = 0
    THEN /\ pc' = "error"
         /\ error' = "noform"
         /\ UNCHANGED MapVars
    ELSE MapForm(start_html[t], MapSelects(start_html[t].selects, uni_auto, fach_auto),
                 collect_hidden_inputs(start_html[t]))

\* lines 370-452
MapFilters ==
    /\ pc = "map"
    /\ MapTarget(TargetForm(start_html))
    /\ UNCHANGED << EnvVars, CrawlVars, FunVars, start_status, start_html,
                    shown, accumulated, fetches >>

\* line 454: post_form, where raise_for_status raises on a 4xx or 5xx answer,
\* and lines 214-218 of crawl_all_pages_html on the page it returns.
\* resultSite: the result pages the site may serve
PostForm(resultSite) ==
    /\ pc = "post"
    /\ fetches' = fetches + 1
    /\ \/ \E first \in resultSite :
            /\ all_rows' = first.rows
            /\ seen_ids' = {first.rows[i].ml_id : i \in Idx(first.rows)}
            /\ next_url' = first.next
            /\ guard' = 0
            /\ firstSeen' = SeenAfter(firstSeen, first.firsts)
            /\ conflict' = (conflict \/ first.repeats)
            /\ lastNew' = Len(first.rows)
            /\ pc' = "loop"
            /\ error' = error
       \/ /\ pc' = "error"
          /\ error' = "fetch"
          /\ UNCHANGED CrawlVars
    /\ UNCHANGED << EnvVars, MapVars, FunVars, start_status, start_html, shown, accumulated >>

\* lines 219-230: one iteration of the loop
CrawlFetch(resultSite) ==
    /\ pc = "loop"
    /\ LoopContinues(next_url, guard)
    /\ guard' = guard + 1
    /\ fetches' = fetches + 1
    /\ \/ \E page \in resultSite :
            /\ all_rows' = Accumulate(all_rows, seen_ids, page.rows)
            /\ seen_ids' = seen_ids \cup {page.rows[i].ml_id : i \in Idx(page.rows)}
            /\ next_url' = page.next
            /\ firstSeen' = SeenAfter(firstSeen, page.firsts)
            /\ conflict' = (conflict \/ page.repeats \/ Differs(firstSeen, page.firsts))
            /\ lastNew' = Len(all_rows') - Len(all_rows)
            /\ pc' = "loop"
            /\ error' = error
       \/ \* raise_for_status, a timeout or a connection failure: the exception
          \* leaves crawl_all_pages_html and reaches line 476
          /\ pc' = "error"
          /\ error' = "fetch"
          /\ UNCHANGED << all_rows, seen_ids, next_url, firstSeen, lastNew, conflict >>
    /\ UNCHANGED << EnvVars, MapVars, FunVars, start_status, start_html, shown, accumulated >>

\* lines 232-233 and 455-475: sort, return, and show the table
CrawlReturn ==
    /\ pc = "loop"
    /\ ~LoopContinues(next_url, guard)
    /\ accumulated' = all_rows
    /\ all_rows' = SortRows(all_rows)
    /\ shown' = << all_rows' >>
    /\ pc' = "done"
    /\ UNCHANGED << EnvVars, MapVars, FunVars, start_status, start_html,
                    seen_ids, next_url, guard, error, fetches, firstSeen, lastNew, conflict >>

\* the run with the sidebar's default texts against the scenario's start page
\* and every result page
Init == InitRun(Dresden, InnereMedizin)

Next ==
    \/ FetchStart({[status |-> 200, forms |-> ScenarioPage]})
    \/ MapFilters
    \/ PostForm(ResultSite)
    \/ CrawlFetch(ResultSite)
    \/ CrawlReturn

Spec == Init /\ [][Next]_vars

\* the run for every wanted text and every start response, against a small
\* set of result pages
InitAuto == \E uni \in WantedUni, fach \in WantedFach : InitRun(uni, fach)

NextAuto ==
    \/ FetchStart(StartResponses)
    \/ MapFilters
    \/ PostForm(FewResultSite)
    \/ CrawlFetch(FewResultSite)
    \/ CrawlReturn

SpecAuto == InitAuto /\ [][NextAuto]_vars

---------------------------------------------------------------------------
(* The functions on their own *)

RunVars == << uni_auto, fach_auto, start_status, start_html, MapVars, CrawlVars,
              shown, error, fetches, accumulated >>

\* a call of a function with argument a, before it runs
InitCall(a) ==
    /\ arg = a /\ ret = << >> /\ pc = "call"
    /\ uni_auto = << >> /\ fach_auto = << >>
    /\ start_status = 0 /\ start_html = << >>
    /\ action_url = None /\ payload = EmptyDict
    /\ uni_name = None /\ uni_val = None /\ fach_name = None /\ fach_val = None
    /\ all_rows = << >> /\ seen_ids = {} /\ next_url = None /\ guard = 0
    /\ shown = << >> /\ error = ""
    /\ fetches = 0 /\ firstSeen = EmptyDict /\ lastNew = 0
    /\ conflict = FALSE /\ accumulated = << >>

InitPick ==
    \E options \in SeqsUpTo(PickOptions, MaxOptions), wanted \in PickWanted :
        InitCall([options |-> options, wanted |-> wanted])

CallPick ==
    /\ pc = "call"
    /\ ret' = pick_option_value(arg.options, arg.wanted)
    /\ pc' = "ret"
    /\ UNCHANGED << arg, RunVars >>

SpecPick == InitPick /\ [][CallPick]_vars

\* elements on the page handed to extract_result_rows_from_html
MaxElements == 3

InitExtract == \E html_text \in SeqsUpTo(ResultElements, MaxElements) : InitCall(html_text)

CallExtract ==
    /\ pc = "call"
    /\ ret' = extract_result_rows_from_html(arg)
    /\ pc' = "ret"
    /\ UNCHANGED << arg, RunVars >>

SpecExtract == InitExtract /\ [][CallExtract]_vars

---------------------------------------------------------------------------
(* The claims *)

\* the ml_ids of a list of rows
IdsOf(rows) == {rows[i].ml_id : i \in Idx(rows)}

\* no two rows of the list share an ml_id
DistinctIds(rows) == \A i, j \in Idx(rows) : rows[i].ml_id = rows[j].ml_id => i = j

\* C1: after the first page and after every iteration of the loop, all_rows
\* holds exactly one row per record id seen on a fetched page, with the title
\* and the url of that id's first occurrence in fetch order.
C1_OneRowPerIdFirstWins ==
    /\ DistinctIds(all_rows)
    /\ IdsOf(all_rows) = DOMAIN firstSeen
    /\ \A i \in Idx(all_rows) :
          /\ all_rows[i].title = firstSeen[all_rows[i].ml_id].title
          /\ all_rows[i].url = firstSeen[all_rows[i].ml_id].url

\* C1 witness: the walk ended after a later link gave another title or url
\* for an id that was kept, with the ids 9 and 09 both kept
C1_Witness ==
    /\ pc = "done" /\ conflict /\ guard >= 2
    /\ {<<"9">>, <<"0", "9">>} \subseteq seen_ids

\* C2: the run issues at most GuardLimit + 1 result-page requests (the form
\* submission and at most GuardLimit further ones), the guard never exceeds
\* GuardLimit, and every further request was counted by the guard.
C2_AtMostGuardLimitPlusOneFetches ==
    /\ fetches <= GuardLimit + 1
    /\ guard <= GuardLimit
    /\ (fetches > 0 => fetches = guard + 1)

\* C2 witness: the walk was stopped by the guard, with a next link still offered
C2_Witness == pc = "done" /\ fetches = GuardLimit + 1 /\ Truthy(next_url)

\* C3 as claimed: no further page is requested once a fetched page added nothing.
C3_NoFetchAfterPageWithoutNew == [][(pc = "loop" /\ lastNew = 0) => fetches' = fetches]_vars

\* C3 amended: in the loop a further page is requested exactly when the last
\* page offered a next link and the guard is below GuardLimit, whatever the
\* page added; otherwise the walk ends without a request.
C3_FetchIffNextLinkAndGuard ==
    [][pc = "loop" =>
          IF Truthy(next_url) /\ guard < GuardLimit
          THEN fetches' = fetches + 1
          ELSE fetches' = fetches /\ pc' = "done"]_vars

\* C3 witness: three pages were fetched although none of them held a reference
C3_Witness == pc = "loop" /\ fetches >= 3 /\ all_rows = << >> /\ lastNew = 0

\* C4 as claimed: when a fetch of the loop fails after rows were collected, the
\* rows collected so far are reported with the error.
C4_PartialResultReported ==
    (pc = "error" /\ error = "fetch" /\ fetches >= 2 /\ all_rows # << >>) =>
        (Len(shown) = 1 /\ IdsOf(shown[1]) = IdsOf(all_rows))

\* C10: when crawl_all_pages_html returns, the list is in ascending order of
\* int(ml_id), and holds the rows that were accumulated, one per seen id.
C10_ReturnedSortedByNumericId ==
    pc = "done" =>
        /\ Len(shown) = 1
        /\ \A i, j \in Idx(shown[1]) : i < j => ToInt(shown[1][i].ml_id) <= ToInt(shown[1][j].ml_id)
        /\ {shown[1][i] : i \in Idx(shown[1])} = {accumulated[i] : i \in Idx(accumulated)}
        /\ Len(shown[1]) = Len(accumulated)
        /\ IdsOf(shown[1]) = seen_ids

\* C10 witness: the returned order is not the order of accumulation: 10 was
\* seen before 9
C10_Witness ==
    /\ pc = "done" /\ Len(accumulated) >= 2
    /\ accumulated[1].ml_id = <<"1", "0">>
    /\ shown[1][1].ml_id # <<"1", "0">>

\* C5: when some option's normalised text equals the normalised wanted text,
\* pick_option_value returns the value and text of the first such option, also
\* when an earlier option matches by containment only.
C5_ExactMatchFirst ==
    pc = "ret" =>
        \A i \in Idx(arg.options) :
            (/\ norm(arg.options[i].visible) = norm(arg.wanted)
             /\ \A j \in 1..(i - 1) : norm(arg.options[j].visible) # norm(arg.wanted))
            => ret = << arg.options[i].value, arg.options[i].visible >>

\* C5 witness: the second option is returned for its exact match in another
\* case, past a first option that holds the wanted text
C5_Witness ==
    /\ pc = "ret" /\ Len(arg.options) >= 2
    /\ Contains(norm(arg.options[1].visible), norm(arg.wanted))
    /\ norm(arg.options[1].visible) # norm(arg.wanted)
    /\ norm(arg.options[2].visible) = norm(arg.wanted)
    /\ arg.options[2].visible # arg.wanted
    /\ ret[1] = arg.options[2].value /\ ret[1] # arg.options[1].value

\* the start page's target form
Target == start_html[TargetForm(start_html)]

\* some option with a text, of some select of the form, matches the wanted
\* text exactly or by containment
SomeOptionMatches(form, wanted) ==
    \E k \in Idx(form.selects) : \E i \in Idx(form.selects[k].options) :
        /\ form.selects[k].options[i].visible # << >>
        /\ \/ norm(form.selects[k].options[i].visible) = norm(wanted)
           \/ FuzzyMatch(norm(form.selects[k].options[i].visible), norm(wanted))

\* the form has a named select for each role, and each of its selects has a
\* name and an option with a text
ControlsLocated(form) ==
    /\ \E k \in Idx(form.selects) : guess_select_role(form.selects[k]) = "uni"
    /\ \E k \in Idx(form.selects) : guess_select_role(form.selects[k]) = "fach"
    /\ \A k \in Idx(form.selects) :
          /\ Truthy(form.selects[k].name)
          /\ \E i \in Idx(form.selects[k].options) : form.selects[k].options[i].visible # << >>

\* the mapping of the filters has run
Mapped == pc \notin {"start", "map", "call", "ret"} /\ start_status # 0 /\ TargetForm(start_html) # 0

C7_RequestHoldsBothPairs ==
    (Mapped /\ fetches >= 1) =>
        /\ uni_name \in DOMAIN payload /\ payload[uni_name] = uni_val
        /\ fach_name \in DOMAIN payload /\ payload[fach_name] = fach_val
        /\ uni_name # fach_name
        /\ \A n \in DOMAIN collect_hidden_inputs(Target) :
              n \in DOMAIN payload /\ payload[n] = collect_hidden_inputs(Target)[n]

\* C8 as claimed: a start page answered with a status outside 2xx ends the run
\* in an error, with no form submitted and no result shown; so does a failed
\* form submission.
C8_FailedFetchIsFatal ==
    /\ (start_status # 0 /\ start_status \notin 200..299) => (fetches = 0 /\ shown = << >>)
    /\ (pc = "error" /\ error = "fetch") => shown = << >>

\* C9: extract_result_rows_from_html returns one row per record id among the
\* page's detail links, in the order of the ids' first occurrences, each with
\* the title and the url of its id's first occurrence.
C9_OneRowPerIdInFirstSeenOrder ==
    pc = "ret" =>
        /\ DistinctIds(ret)
        /\ IdsOf(ret) = IdsOn(arg)
        /\ \A i \in Idx(ret) :
              /\ ret[i].title = FirstOn(arg, ret[i].ml_id).title
              /\ ret[i].url = FirstOn(arg, ret[i].ml_id).url
        /\ \A i, j \in Idx(ret) :
              i < j => MinOf(Occurrences(arg, ret[i].ml_id)) < MinOf(Occurrences(arg, ret[j].ml_id))

\* C9 witness: three detail links, two of them to the same id with different
\* texts, gave two rows
C9_Witness ==
    /\ pc = "ret" /\ Len(AnchorsWithHref(arg)) = 3 /\ Len(ret) = 2
    /\ \E id \in IdsOn(arg) :
          /\ Cardinality(Occurrences(arg, id)) = 2
          /\ \E i, j \in Occurrences(arg, id) : arg[i].text # arg[j].text

=============================================================================
